---- MODULE Spec2Model ----
(***************************************************************************)
(* A model of frontend/public/App.js: the route ranking and matching       *)
(* utility (pick), the Router/Route registration protocol, the writable    *)
(* store, the Dashboard and Predictions data fetch, and Overview's         *)
(* derived tables.                                                         *)
(*                                                                         *)
(* Strings are sequences of one-character strings, so that segmentize,     *)
(* stripSlashes and combinePaths are computed character by character.      *)
(* JavaScript's null/undefined results are the record NULL.                *)
(***************************************************************************)
EXTENDS Integers, Sequences, FiniteSets, TLC

VARIABLES
    \* ---- pick / rankRoutes applied to drawn inputs
    pkRoutes,        \* the routes argument
    pkUri,           \* the uri argument
    pkResult,        \* what pick returned (NotCalled before the call)
    pkRanked,        \* what rankRoutes returned (<<>> before the call)
    pkRankDone,      \* whether rankRoutes has been applied
    \* ---- one Router and the Routes rendered in its slot
    rSsr,            \* typeof window === "undefined"
    rBasepath,       \* $base.path
    rPathname,       \* $location.pathname
    rPhase,          \* "router": before the Router's body; "routes": its slot
                     \* is rendering; "done": render() has returned
    rPending,        \* the path props of the Routes still to render, in order
    rRoutes,         \* the array held by the routes store
    rActive,         \* the value of the activeRoute store
    rHasActive,      \* hasActiveRoute
    rRegistered,     \* every route object passed to registerRoute, in order
    rRendered,       \* ids of the Routes that rendered their content
    \* ---- one writable store and the module's subscriber_queue
    sValue,          \* value
    sStop,           \* stop: "undefined", "null" or "function"
    sSubscribers,    \* subscribers, in insertion order (ids of the subscribers)
    subscriber_queue,\* pairs [sub, value] awaiting their run callback
    sStartKind,      \* what the start notifier does: "noop" or "set"
    sBehaviour,      \* per subscriber, what its run callback does
    sUnsubCalls,     \* per subscriber, how often its unsubscribe was called
    sLastSet,        \* the initial value, then the argument of the latest set
    sOp,             \* the latest call made on the store from outside
    sEvents,         \* what that call did, in order
    sNotifier,       \* every start / stop call so far, in order
    sThrew,          \* whether that call ended in a TypeError
    \* ---- the Dashboard component, mounted in a browser
    dPc,             \* "created", "fetching" (await fetch), "decoding"
                     \* (await response.json()), "done" (initDashboard
                     \* returned) or "rejected" (its promise rejected)
    dHyphenatedTeam, \* hyphenatedTeam (NoTeam for null)
    dTeam,           \* team
    dTitle,          \* title, as the parts of the template string
    dTeams,          \* teams
    dCurrentMatchday,\* currentMatchday$1: -1 undefined, 0 null, else the key
    dPlayedDates,    \* playedDates
    dData,           \* data (NULL for undefined)
    dUrl,            \* the last segment of window.location.href
    dNavigated,      \* window.location.href = "/error" was assigned
    dFetchCalls,     \* number of calls of fetch
    dFetchFailed,    \* the fetch or the JSON decoding rejected
    dFetched,        \* what response.json() resolved to (NULL before)
    dOp,             \* the latest Dashboard step
    dThrew,          \* whether that step ended in a TypeError
    \* ---- the Predictions component, mounted in a browser
    pPc,             \* as dPc, for the onMount callback
    pData,           \* data (NULL for undefined)
    pFetchCalls,     \* number of calls of fetch
    pFetchFailed,    \* the fetch or the JSON decoding rejected
    \* ---- the Overview component, mounted in a browser
    oPc,             \* "none", "created" or "mounted" (onMount has run)
    oData,           \* the object the data prop refers to
    oFetched,        \* that object as it was when the Dashboard passed it
    oUpcoming,       \* upcoming (NULL for undefined)
    oStandings,      \* standings
    oFixtures,       \* fixtures
    \* ---- renders of the Nav component
    nTeam,           \* the team prop
    nTeams,          \* the teams prop
    nOutputs,        \* the HTML each render so far returned, in order
    \* ---- calls of the formatting helpers
    tTable,          \* sortedTeams
    tTeam,           \* team
    tRange,          \* what tableSnippetRange returned (NotCalled before)
    iName,           \* the team name
    iResult,         \* what toInitials returned (NotCalled before)
    \* ---- the derived store D = derived([A, B], fn), its sources, the
    \*      subscriber P of A and the subscriber Q of D
    vValue,          \* value, per store
    vStop,           \* stop, per store: "undefined" or "function"
    vSubscribers,    \* subscribers, per store, in insertion order
    vQueue,          \* subscriber_queue: pairs [sub, value]
    vValues,         \* values, of derived's start notifier
    vPending,        \* pending, as the set of the bits that are set
    vInited,         \* inited
    vBehaviour,      \* what the run callback of P does
    vOp,             \* the latest call made from outside
    vEvals,          \* the evaluations of fn that call made, in order
    vDelivered       \* the values that call delivered to Q, in order

pickVars == <<pkRoutes, pkUri, pkResult, pkRanked, pkRankDone>>
routerVars == <<rSsr, rBasepath, rPathname, rPhase, rPending, rRoutes, rActive,
                rHasActive, rRegistered, rRendered>>

storeVars == <<sValue, sStop, sSubscribers, subscriber_queue, sStartKind,
               sBehaviour, sUnsubCalls, sLastSet, sOp, sEvents, sNotifier, sThrew>>

dashVars == <<dPc, dHyphenatedTeam, dTeam, dTitle, dTeams, dCurrentMatchday,
              dPlayedDates, dData, dUrl, dNavigated, dFetchCalls, dFetchFailed,
              dFetched, dOp, dThrew>>
predVars == <<pPc, pData, pFetchCalls, pFetchFailed>>
overVars == <<oPc, oData, oFetched, oUpcoming, oStandings, oFixtures>>

navVars == <<nTeam, nTeams, nOutputs>>
fmtVars == <<tTable, tTeam, tRange, iName, iResult>>
drvVars == <<vValue, vStop, vSubscribers, vQueue, vValues, vPending, vInited,
             vBehaviour, vOp, vEvals, vDelivered>>

vars == <<pickVars, routerVars, storeVars, dashVars, predVars, overVars,
          navVars, fmtVars, drvVars>>

NULL == [kind |-> "null"]
NotCalled == [kind |-> "notcalled"]

(***************************************************************************)
(* Strings                                                                 *)
(***************************************************************************)
Max(a, b) == IF a > b THEN a ELSE b

\* str.slice(from): the suffix starting at 0-based position from
SliceFrom(s, from) == SubSeq(s, from + 1, Len(s))

\* str.slice(0, to): the prefix of the first `to` elements
SliceTo(s, to) == SubSeq(s, 1, IF to < Len(s) THEN to ELSE Len(s))

RECURSIVE StripLeading(_)
StripLeading(s) ==
    IF Len(s) > 0 /\ s[1] = "/" THEN StripLeading(Tail(s)) ELSE s

RECURSIVE StripTrailing(_)
StripTrailing(s) ==
    IF Len(s) > 0 /\ s[Len(s)] = "/"
    THEN StripTrailing(SubSeq(s, 1, Len(s) - 1))
    ELSE s

\* str.replace(/(^\/+|\/+$)/g, "")
stripSlashes(str) == StripTrailing(StripLeading(str))

\* 0 when ch does not occur in s, else the 1-based position of its first occurrence
IndexOf(s, ch) ==
    IF \E i \in 1..Len(s) : s[i] = ch
    THEN CHOOSE i \in 1..Len(s) : s[i] = ch /\ \A j \in 1..(i - 1) : s[j] # ch
    ELSE 0

\* str.split(ch)
RECURSIVE Split(_, _)
Split(s, ch) ==
    LET i == IndexOf(s, ch)
    IN  IF i = 0
        THEN <<s>>
        ELSE <<SubSeq(s, 1, i - 1)>> \o Split(SubSeq(s, i + 1, Len(s)), ch)

\* segments.join("/")
RECURSIVE Join(_)
Join(segs) ==
    IF Len(segs) = 0 THEN <<>>
    ELSE IF Len(segs) = 1 THEN segs[1]
    ELSE segs[1] \o <<"/">> \o Join(Tail(segs))

segmentize(uri) == Split(stripSlashes(uri), "/")

\* The alphabet of the model has no "%", so no escape sequence is decoded
\* and no URIError is thrown.
decodeURIComponent(s) == s

(***************************************************************************)
(* Route ranking                                                           *)
(***************************************************************************)
SEGMENT_POINTS == 4
STATIC_POINTS == 3
DYNAMIC_POINTS == 2
SPLAT_PENALTY == 1
ROOT_POINTS == 1

isRootSegment(segment) == segment = <<>>

\* paramRe = /^:(.+)/
isDynamic(segment) == Len(segment) >= 2 /\ segment[1] = ":"

isSplat(segment) == Len(segment) >= 1 /\ segment[1] = "*"

SegmentScore(segment) ==
    IF isRootSegment(segment) THEN SEGMENT_POINTS + ROOT_POINTS
    ELSE IF isDynamic(segment) THEN SEGMENT_POINTS + DYNAMIC_POINTS
    ELSE IF isSplat(segment) THEN SEGMENT_POINTS - (SEGMENT_POINTS + SPLAT_PENALTY)
    ELSE SEGMENT_POINTS + STATIC_POINTS

RECURSIVE SumScores(_)
SumScores(segs) ==
    IF Len(segs) = 0 THEN 0 ELSE SegmentScore(segs[1]) + SumScores(Tail(segs))

rankRoute(route, index) ==
    [route |-> route,
     score |-> IF route.default THEN 0 ELSE SumScores(segmentize(route.path)),
     index |-> index]

\* The comparator of rankRoutes with the scores the wrong way round.
RankCompareAscending(a, b) ==
    IF a.score > b.score THEN 1
    ELSE IF a.score < b.score THEN -1
    ELSE a.index - b.index

\* The comparator of rankRoutes without its tie-break on the index.
RankCompareScoreOnly(a, b) ==
    IF a.score < b.score THEN 1
    ELSE IF a.score > b.score THEN -1
    ELSE 0

\* The comparator of rankRoutes' sort: negative when a goes before b
RankCompare(a, b) ==
    IF a.score < b.score THEN 1
    ELSE IF a.score > b.score THEN -1
    ELSE a.index - b.index

RECURSIVE InsertRanked(_, _)
InsertRanked(x, sorted) ==
    IF Len(sorted) = 0 THEN <<x>>
    ELSE IF RankCompare(x, sorted[1]) < 0 THEN <<x>> \o sorted
    ELSE <<sorted[1]>> \o InsertRanked(x, Tail(sorted))

RECURSIVE SortRanked(_)
SortRanked(rs) ==
    IF Len(rs) = 0 THEN <<>>
    ELSE InsertRanked(rs[1], SortRanked(Tail(rs)))

\* routes.map(rankRoute).sort(...); the index is the 0-based array index
rankRoutes(routes) ==
    SortRanked([i \in 1..Len(routes) |-> rankRoute(routes[i], i - 1)])

(***************************************************************************)
(* pick                                                                    *)
(***************************************************************************)
SetParam(params, name, value) == (name :> value) @@ params

\* The inner for loop of pick over one route: the result has
\* missed, params and the index at which the loop stopped.
RECURSIVE MatchLoop(_, _, _, _, _)
MatchLoop(routeSegments, uriSegments, isRootUri, index, params) ==
    LET max == Max(Len(uriSegments), Len(routeSegments))
        hasRoute == index < Len(routeSegments)
        hasUri == index < Len(uriSegments)
        routeSegment == routeSegments[index + 1]
        uriSegment == uriSegments[index + 1]
    IN  IF index >= max
        THEN [missed |-> FALSE, params |-> params, index |-> index]
        ELSE IF hasRoute /\ isSplat(routeSegment)
        THEN LET splatName == IF routeSegment = <<"*">> THEN <<"*">>
                              ELSE Tail(routeSegment)
                 rest == SliceFrom(uriSegments, index)
             IN  [missed |-> FALSE,
                  params |-> SetParam(params, splatName,
                        Join([i \in 1..Len(rest) |-> decodeURIComponent(rest[i])])),
                  index |-> index]
        ELSE IF ~hasUri
        THEN [missed |-> TRUE, params |-> params, index |-> index]
        ELSE IF hasRoute /\ isDynamic(routeSegment) /\ ~isRootUri
        THEN MatchLoop(routeSegments, uriSegments, isRootUri, index + 1,
                SetParam(params, Tail(routeSegment), decodeURIComponent(uriSegment)))
        ELSE IF ~hasRoute \/ routeSegment # uriSegment
        THEN [missed |-> TRUE, params |-> params, index |-> index]
        ELSE MatchLoop(routeSegments, uriSegments, isRootUri, index + 1, params)

\* uri.split("?")[0]
UriPathname(uri) == Split(uri, "?")[1]

MatchRoute(route, uri) ==
    LET uriSegments == segmentize(UriPathname(uri))
    IN  MatchLoop(segmentize(route.path), uriSegments,
                  uriSegments[1] = <<>>, 0, <<>>)

\* The outer loop of pick from position i of the ranked list, with the
\* default_ seen so far; returns match || default_ || null
RECURSIVE PickLoop(_, _, _, _)
PickLoop(ranked, uri, i, default_) ==
    IF i > Len(ranked) THEN default_
    ELSE LET route == ranked[i].route
         IN  IF route.default
             THEN PickLoop(ranked, uri, i + 1,
                      [kind |-> "match", route |-> route, params |-> <<>>, uri |-> uri])
             ELSE LET m == MatchRoute(route, uri)
                  IN  IF ~m.missed
                      THEN [kind |-> "match", route |-> route, params |-> m.params,
                            uri |-> <<"/">> \o
                                Join(SliceTo(segmentize(UriPathname(uri)), m.index))]
                      ELSE PickLoop(ranked, uri, i + 1, default_)

pick(routes, uri) == PickLoop(rankRoutes(routes), uri, 1, NULL)

match(route, uri) == pick(<<route>>, uri)

(***************************************************************************)
(* Inputs of pick                                                          *)
(***************************************************************************)
MaxRoutes == 3

PickPaths ==
    { <<"/">>, <<"/", "a">>, <<"/", "b">>, <<"/", ":", "x">>, <<"/", "*">>,
      <<"/", "a", "/", "b">>, <<"/", "a", "/", ":", "x">>, <<"/", "a", "/", "*">> }

PickUris ==
    { <<"/">>, <<"/", "a">>, <<"/", "b">>, <<"/", "a", "/", "b">>,
      <<"/", "a", "/", "b", "/", "a">>, <<"/", "b", "?", "a">> }

\* { path, default } as Route builds it and registerRoute rewrites it, and
\* the identity of the object
PickRouteShapes ==
    { [path |-> p, default |-> FALSE] : p \in PickPaths }
        \cup { [path |-> <<"/">>, default |-> TRUE] }

WithIds(shapes) ==
    [i \in 1..Len(shapes) |->
        [id |-> i, path |-> shapes[i].path, default |-> shapes[i].default]]

PickIdle ==
    /\ pkRoutes = <<>>
    /\ pkUri = <<>>
    /\ pkResult = NotCalled
    /\ pkRanked = <<>>
    /\ pkRankDone = FALSE

RouterIdle ==
    /\ rSsr = TRUE
    /\ rBasepath = <<"/">>
    /\ rPathname = <<"/">>
    /\ rPhase = "done"
    /\ rPending = <<>>
    /\ rRoutes = <<>>
    /\ rActive = NULL
    /\ rHasActive = FALSE
    /\ rRegistered = <<>>
    /\ rRendered = {}

NoOp == [op |-> "none", arg |-> "-", sub |-> 0, valueBefore |-> "-",
         subsBefore |-> <<>>]

StoreIdle ==
    /\ sValue = "a"
    /\ sStop = "undefined"
    /\ sSubscribers = <<>>
    /\ subscriber_queue = <<>>
    /\ sStartKind = "noop"
    /\ sBehaviour = <<>>
    /\ sUnsubCalls = <<>>
    /\ sLastSet = "a"
    /\ sOp = NoOp
    /\ sEvents = <<>>
    /\ sNotifier = <<>>
    /\ sThrew = FALSE

NoTeam == "<null>"
NoDates == [defined |-> FALSE, x |-> <<>>]

DashIdle ==
    /\ dPc = "created"
    /\ dHyphenatedTeam = NoTeam
    /\ dTeam = ""
    /\ dTitle = <<"Dashboard">>
    /\ dTeams = <<>>
    /\ dCurrentMatchday = -1
    /\ dPlayedDates = NoDates
    /\ dData = NULL
    /\ dUrl = ""
    /\ dNavigated = FALSE
    /\ dFetchCalls = 0
    /\ dFetchFailed = FALSE
    /\ dFetched = NULL
    /\ dOp = "none"
    /\ dThrew = FALSE

PredIdle ==
    /\ pPc = "created"
    /\ pData = NULL
    /\ pFetchCalls = 0
    /\ pFetchFailed = FALSE

\* No Overview is rendered
OverIdle ==
    /\ oPc = "none"
    /\ oData = NULL
    /\ oFetched = NULL
    /\ oUpcoming = NULL
    /\ oStandings = NULL
    /\ oFixtures = NULL

\* No Nav is rendered
NavIdle ==
    /\ nTeam = ""
    /\ nTeams = <<>>
    /\ nOutputs = <<>>

\* No formatting helper is called
FmtIdle ==
    /\ tTable = <<>>
    /\ tTeam = 0
    /\ tRange = NotCalled
    /\ iName = ""
    /\ iResult = NotCalled

\* No derived store is created
DrvIdle ==
    /\ vValue = <<>>
    /\ vStop = <<>>
    /\ vSubscribers = <<>>
    /\ vQueue = <<>>
    /\ vValues = <<>>
    /\ vPending = {}
    /\ vInited = FALSE
    /\ vBehaviour = "plain"
    /\ vOp = NoOp
    /\ vEvals = <<>>
    /\ vDelivered = <<>>

RestIdle == NavIdle /\ FmtIdle /\ DrvIdle

PageIdle == DashIdle /\ PredIdle /\ OverIdle /\ RestIdle

PickInit ==
    /\ RouterIdle
    /\ StoreIdle
    /\ PageIdle
    /\ \E n \in 0..MaxRoutes : \E shapes \in [1..n -> PickRouteShapes] :
            pkRoutes = WithIds(shapes)
    /\ pkUri \in PickUris
    /\ pkResult = NotCalled
    /\ pkRanked = <<>>
    /\ pkRankDone = FALSE

CallPick ==
    /\ pkResult = NotCalled
    /\ pkResult' = pick(pkRoutes, pkUri)
    /\ UNCHANGED <<pkRoutes, pkUri, pkRanked, pkRankDone>>
    /\ UNCHANGED <<routerVars, storeVars, dashVars, predVars, overVars,
                   navVars, fmtVars, drvVars>>

CallRankRoutes ==
    /\ ~pkRankDone
    /\ pkRanked' = rankRoutes(pkRoutes)
    /\ pkRankDone' = TRUE
    /\ UNCHANGED <<pkRoutes, pkUri, pkResult>>
    /\ UNCHANGED <<routerVars, storeVars, dashVars, predVars, overVars,
                   navVars, fmtVars, drvVars>>

PickNext == CallPick \/ CallRankRoutes

SpecPick == PickInit /\ [][PickNext]_vars

(***************************************************************************)
(* C1: pick returns the match of a non-default route r only if r's         *)
(* segments match the uri and no other matching non-default route has a    *)
(* strictly higher score; it returns null exactly when no non-default      *)
(* route matches and the list has no default route.                        *)
(***************************************************************************)
RouteMatches(route, uri) == ~route.default /\ ~MatchRoute(route, uri).missed

ScoreOf(route) == rankRoute(route, 0).score

C1_PickBestMatch ==
    pkResult # NotCalled =>
        /\ (pkResult.kind = "match" /\ ~pkResult.route.default) =>
                /\ \E i \in 1..Len(pkRoutes) : pkRoutes[i] = pkResult.route
                /\ RouteMatches(pkResult.route, pkUri)
                /\ \A j \in 1..Len(pkRoutes) :
                      RouteMatches(pkRoutes[j], pkUri)
                          => ScoreOf(pkRoutes[j]) <= ScoreOf(pkResult.route)
        /\ (pkResult = NULL) <=>
                /\ \A j \in 1..Len(pkRoutes) : ~RouteMatches(pkRoutes[j], pkUri)
                /\ \A j \in 1..Len(pkRoutes) : ~pkRoutes[j].default

\* pick chose a route that stands after a matching route of lower score
C1_Witness ==
    /\ pkResult # NotCalled
    /\ pkResult.kind = "match"
    /\ ~pkResult.route.default
    /\ \E j \in 1..Len(pkRoutes) :
          /\ j < pkResult.route.id
          /\ RouteMatches(pkRoutes[j], pkUri)
          /\ ScoreOf(pkRoutes[j]) < ScoreOf(pkResult.route)

(***************************************************************************)
(* Router and Route                                                        *)
(***************************************************************************)
combinePaths(basepath, path) ==
    stripSlashes(IF path = <<"/">> THEN basepath
                 ELSE stripSlashes(basepath) \o <<"/">> \o stripSlashes(path))
        \o <<"/">>

\* The object Route builds from its path prop, after registerRoute has
\* stored the original path in _path and rewritten path
RouteObject(id, path, basepath) ==
    [id |-> id, path |-> combinePaths(basepath, path), default |-> path = <<>>,
     _path |-> path]

\* registerRoute's server-side branch with the hasActiveRoute test left out
registerRouteSsrNoSkip(route, pathname, active, hasActive) ==
    LET matchingRoute == match(route, pathname)
    IN  IF matchingRoute # NULL
        THEN [active |-> matchingRoute, hasActive |-> TRUE]
        ELSE [active |-> active, hasActive |-> hasActive]

\* registerRoute's branch for typeof window === "undefined": the new
\* value of activeRoute and of hasActiveRoute
registerRouteSsr(route, pathname, active, hasActive) ==
    IF hasActive
    THEN [active |-> active, hasActive |-> hasActive]
    ELSE LET matchingRoute == match(route, pathname)
         IN  IF matchingRoute # NULL
             THEN [active |-> matchingRoute, hasActive |-> TRUE]
             ELSE [active |-> active, hasActive |-> hasActive]

\* rs.splice(rs.indexOf(route), 1)
RemoveRoute(rs, route) ==
    LET idx == IF \E i \in 1..Len(rs) : rs[i] = route
               THEN CHOOSE i \in 1..Len(rs) :
                        rs[i] = route /\ \A j \in 1..(i - 1) : rs[j] # route
               ELSE Len(rs)     \* indexOf gives -1: splice(-1, 1) drops the last
    IN  [i \in 1..(IF Len(rs) = 0 THEN 0 ELSE Len(rs) - 1) |->
            IF i < idx THEN rs[i] ELSE rs[i + 1]]

RECURSIVE RemoveRoutes(_, _)
RemoveRoutes(rs, toRemove) ==
    IF Len(toRemove) = 0 THEN rs
    ELSE RemoveRoutes(RemoveRoute(rs, toRemove[1]), Tail(toRemove))

\* The Router's body up to the rendering of its slot: the routes of the
\* store get their paths recombined, and activeRoute is set to the best
\* match over the routes registered so far.
RenderRouter ==
    /\ rPhase = "router"
    /\ rRoutes' = [i \in 1..Len(rRoutes) |->
                    [rRoutes[i] EXCEPT !.path = combinePaths(rBasepath, rRoutes[i]._path)]]
    /\ rActive' = pick(rRoutes', rPathname)
    /\ rPhase' = "routes"
    /\ UNCHANGED <<rSsr, rBasepath, rPathname, rPending, rHasActive, rRegistered,
                   rRendered>>
    /\ UNCHANGED <<pickVars, storeVars, dashVars, predVars, overVars,
                   navVars, fmtVars, drvVars>>

\* One Route of the slot: it builds its route object, calls registerRoute
\* and renders its content when $activeRoute.route is its own route.
RenderRoute ==
    /\ rPhase = "routes"
    /\ Len(rPending) > 0
    /\ LET route == RouteObject(Len(rRegistered) + 1, Head(rPending), rBasepath)
           reg == registerRouteSsr(route, rPathname, rActive, rHasActive)
       IN  /\ rRegistered' = Append(rRegistered, route)
           /\ IF rSsr
              THEN /\ rActive' = reg.active
                   /\ rHasActive' = reg.hasActive
                   /\ rRoutes' = rRoutes
              ELSE /\ rRoutes' = Append(rRoutes, route)
                   /\ UNCHANGED <<rActive, rHasActive>>
           /\ rRendered' =
                IF rActive' # NULL /\ rActive'.route = route
                THEN rRendered \cup {route.id}
                ELSE rRendered
    /\ rPending' = Tail(rPending)
    /\ UNCHANGED <<rSsr, rBasepath, rPathname, rPhase>>
    /\ UNCHANGED <<pickVars, storeVars, dashVars, predVars, overVars,
                   navVars, fmtVars, drvVars>>

\* render() runs the on_destroy callbacks: with a window every Route has
\* registered unregisterRoute(route); without one there is none.
RunOnDestroy ==
    /\ rPhase = "routes"
    /\ Len(rPending) = 0
    /\ rRoutes' = IF rSsr THEN rRoutes ELSE RemoveRoutes(rRoutes, rRegistered)
    /\ rPhase' = "done"
    /\ UNCHANGED <<rSsr, rBasepath, rPathname, rPending, rActive, rHasActive,
                   rRegistered, rRendered>>
    /\ UNCHANGED <<pickVars, storeVars, dashVars, predVars, overVars,
                   navVars, fmtVars, drvVars>>

MaxChildren == 3

RouterBasepaths == { <<"/">>, <<"/", "b">> }

\* "" is the path of a Route given no path prop
RoutePaths ==
    { <<>>, <<"/">>, <<"/", "a">>, <<"/", ":", "x">>, <<"/", "*">>,
      <<"/", "b", "/", "a">>, <<"a", "/", ":", "x">> }

RouterPathnames ==
    { <<"/">>, <<"/", "a">>, <<"/", "b">>, <<"/", "b", "/", "a">>,
      <<"/", "a", "/", "b">> }

RouterInit ==
    /\ PickIdle
    /\ StoreIdle
    /\ PageIdle
    /\ rSsr \in BOOLEAN
    /\ rBasepath \in RouterBasepaths
    /\ rPathname \in RouterPathnames
    /\ rPhase = "router"
    /\ \E n \in 1..MaxChildren : rPending \in [1..n -> RoutePaths]
    /\ rRoutes = <<>>
    /\ rActive = NULL
    /\ rHasActive = FALSE
    /\ rRegistered = <<>>
    /\ rRendered = {}

RouterNext == RenderRouter \/ RenderRoute \/ RunOnDestroy

SpecRouter == RouterInit /\ [][RouterNext]_vars

\* The bundle as it runs under Node: no window
RouterSsrInit == RouterInit /\ rSsr = TRUE

SpecRouterSsr == RouterSsrInit /\ [][RouterNext]_vars

\* Every Route of the slot has been rendered
RenderComplete == rPhase # "router" /\ Len(rPending) = 0

\* 0 for null, else the identity of the route of a match
RouteIdOf(m) == IF m = NULL THEN 0 ELSE m.route.id

\* The first registered route that match() accepts for the location, 0 if none
FirstMatchIndex ==
    LET hits == { i \in 1..Len(rRegistered) : match(rRegistered[i], rPathname) # NULL }
    IN  IF hits = {} THEN 0 ELSE CHOOSE i \in hits : \A j \in hits : i <= j

(***************************************************************************)
(* C2: the order of the routes does not matter: the Route a Router         *)
(* activates while rendering is the one pick returns over the whole set    *)
(* of registered routes, whatever the order of the registerRoute calls.    *)
(***************************************************************************)
C2_OrderDoesNotMatter ==
    RenderComplete => RouteIdOf(rActive) = RouteIdOf(pick(rRegistered, rPathname))

(***************************************************************************)
(* C3: a Route given no path is the default Route: it becomes the active   *)
(* route (and is rendered) only if no other Route registered with the      *)
(* same Router matches the location, wherever it stands in the order.      *)
(***************************************************************************)
C3_DefaultOnlyWithoutMatch ==
    (RenderComplete /\ rActive # NULL /\ rActive.route.default) =>
        \A i \in 1..Len(rRegistered) : ~RouteMatches(rRegistered[i], rPathname)

(***************************************************************************)
(* C4: in a server-side render activeRoute is set at the first             *)
(* registerRoute call whose route matches the location and every later     *)
(* registerRoute call leaves it unchanged, so at most one Route of the     *)
(* Router is active and rendered.                                          *)
(***************************************************************************)
C4_SsrFirstMatchStays ==
    (rSsr /\ rPhase # "router") =>
        /\ rHasActive <=> FirstMatchIndex # 0
        /\ rActive = IF FirstMatchIndex = 0 THEN NULL
                     ELSE match(rRegistered[FirstMatchIndex], rPathname)
        /\ rRendered = IF FirstMatchIndex = 0 THEN {} ELSE {FirstMatchIndex}
        /\ Cardinality(rRendered) <= 1

\* a later Route matched the location too and was skipped
C4_Witness ==
    /\ rSsr
    /\ RenderComplete
    /\ rHasActive
    /\ \E j \in 1..Len(rRegistered) :
          /\ j > FirstMatchIndex
          /\ match(rRegistered[j], rPathname) # NULL
    /\ rRendered = {FirstMatchIndex}

(***************************************************************************)
(* The writable store                                                      *)
(*                                                                         *)
(* Values: "a" and "b" are primitives,       "NaN" is NaN and "obj" is one  *)
(* object.  A call on the store is computed on a record S of the store's   *)
(* fields and the module's subscriber_queue; the callbacks it runs may     *)
(* call back into the store, which is the recursion below.                 *)
(***************************************************************************)
Values == {"a", "b", "NaN", "obj"}

IsObject(v) == v = "obj"

\* a comparison that never finds two values equal
always_not_equal(a, b) == TRUE

\* a != a ? b == b : a !== b || (a && typeof a === 'object') || typeof a === 'function'
safe_not_equal(a, b) ==
    IF a = "NaN" THEN b # "NaN" ELSE (a # b \/ IsObject(a))

\* What a run callback does with the value it receives:
\*   "plain"      nothing that touches the store
\*   "set"        v => { if (v !== NestedValue) store.set(NestedValue) }
\*   "unsubNext"  calls, once, the unsubscribe function of the subscriber
\*                that subscribed right after it
Behaviours == {"plain", "set", "unsubNext"}

NestedValue == "b"

\* What the start notifier does: nothing (the default, noop), or a
\* synchronous set(StartValue) and the return of a stop function
StartKinds == {"noop", "set"}

StartValue == "b"

\* One step of a call: ev is "add", "delete", "deleteNothing" (a delete of
\* a subscriber that is not in the set), "start", "stop", or the call of a
\* run callback made by subscribe ("run") or by set's queue loop
\* ("queuedRun").  size is subscribers.size, last the latest set argument.
Event(ev, sub, value, S) ==
    [ev |-> ev, sub |-> sub, value |-> value, size |-> Len(S.subscribers),
     last |-> S.lastSet]

Log(S, ev, sub, value) ==
    [S EXCEPT !.events = Append(@, Event(ev, sub, value, S))]

RemoveSub(subs, sub) == SelectSeq(subs, LAMBDA x : x # sub)

\* subscribers.size === 1, taken to hold after every add
AlwaysFirst(subs) == TRUE

\* subscribers.size === 1
IsFirstSubscriber(subs) == Len(subs) = 1

\* subscribers.size === 0
NoSubscriberLeft(subs) == Len(subs) = 0

\* run's argument read before start(set) ran
RunArgumentStale(before, after) == before.value

\* run(value): value is read after start(set) has returned
RunArgument(before, after) == after.value

\* run_queue taken to be true also while the queue is being run
RunQueueAlways(queue) == TRUE

\* const run_queue = !subscriber_queue.length
RunQueue(queue) == Len(queue) = 0

RECURSIVE StoreSet(_, _)
RECURSIVE Drain(_, _)
RECURSIVE RunCallback(_, _, _, _)
RECURSIVE StoreUnsubscribe(_, _)

\* set(new_value)
StoreSet(S, new_value) ==
    LET S0 == [S EXCEPT !.lastSet = new_value]
    IN  IF ~safe_not_equal(S0.value, new_value) THEN S0
        ELSE LET S1 == [S0 EXCEPT !.value = new_value]
             IN  IF S1.stop # "function" THEN S1
                 ELSE LET run_queue == RunQueue(S1.queue)
                          S2 == [S1 EXCEPT !.queue = @ \o
                                    [i \in 1..Len(S1.subscribers) |->
                                        [sub |-> S1.subscribers[i],
                                         value |-> S1.value]]]
                      IN  IF ~run_queue THEN S2
                          ELSE LET S3 == Drain(S2, 1)
                               IN  IF S3.threw THEN S3
                                   ELSE [S3 EXCEPT !.queue = <<>>]

\* for (let i = 0; i < subscriber_queue.length; i += 2) ...
Drain(S, i) ==
    IF S.threw \/ i > Len(S.queue) THEN S
    ELSE Drain(RunCallback(S, S.queue[i].sub, S.queue[i].value, "queuedRun"), i + 1)

\* subscriber[0](value), or run(value) in subscribe
RunCallback(S, sub, value, ev) ==
    LET S1 == Log(S, ev, sub, value)
        b == S.behaviour[sub]
    IN  IF b = "set" /\ value # NestedValue
        THEN StoreSet(S1, NestedValue)
        ELSE IF /\ b = "unsubNext"
                /\ sub + 1 <= Len(S1.unsubCalls)
                /\ S1.unsubCalls[sub + 1] = 0
        THEN StoreUnsubscribe(S1, sub + 1)
        ELSE S1

\* The function subscribe returned for subscriber sub
StoreUnsubscribe(S, sub) ==
    LET S1 == [S EXCEPT !.unsubCalls[sub] = @ + 1,
                        !.subscribers = RemoveSub(@, sub)]
        S2 == Log(S1, IF sub \in {S.subscribers[i] : i \in 1..Len(S.subscribers)}
                      THEN "delete" ELSE "deleteNothing", sub, "-")
    IN  IF NoSubscriberLeft(S2.subscribers)
        THEN IF S2.stop = "function"
             THEN [Log(S2, "stop", sub, "-") EXCEPT
                        !.stop = "null", !.notifier = Append(@, "stop")]
             ELSE [S2 EXCEPT !.threw = TRUE]   \* stop is not a function
        ELSE S2

\* start(set) || noop
StoreStart(S, sub) ==
    LET S1 == [Log(S, "start", sub, "-") EXCEPT !.notifier = Append(@, "start")]
        S2 == IF S1.startKind = "set" THEN StoreSet(S1, StartValue) ELSE S1
    IN  [S2 EXCEPT !.stop = "function"]

\* subscribe(run) by a new subscriber whose run behaves as behaviour
StoreSubscribe(S, behaviour) ==
    LET sub == Len(S.behaviour) + 1
        S1 == [S EXCEPT !.behaviour = Append(@, behaviour),
                        !.subscribers = Append(@, sub)]
        S2 == Log(S1, "add", sub, "-")
        S3 == IF IsFirstSubscriber(S2.subscribers) THEN StoreStart(S2, sub) ELSE S2
        S4 == RunCallback(S3, sub, RunArgument(S2, S3), "run")
    IN  \* the unsubscribe function exists once subscribe has returned
        [S4 EXCEPT !.unsubCalls = Append(@, 0)]

\* update(fn): fn is one of the functions of UpdateFns
ApplyFn(fn, value) ==
    IF fn = "swap" THEN (IF value = "a" THEN "b" ELSE "a")
    ELSE IF fn = "same" THEN value
    ELSE "obj"

UpdateFns == {"swap", "same", "toObj"}

StoreUpdate(S, fn) == StoreSet(S, ApplyFn(fn, S.value))

\* The store's fields and the queue as one record, with an empty event list
StoreRecord ==
    [value |-> sValue, stop |-> sStop, subscribers |-> sSubscribers,
     queue |-> subscriber_queue, startKind |-> sStartKind,
     behaviour |-> sBehaviour, unsubCalls |-> sUnsubCalls, lastSet |-> sLastSet,
     events |-> <<>>, notifier |-> sNotifier, threw |-> FALSE]

Commit(S, op) ==
    /\ sValue' = S.value
    /\ sStop' = S.stop
    /\ sSubscribers' = S.subscribers
    /\ subscriber_queue' = S.queue
    /\ sStartKind' = S.startKind
    /\ sBehaviour' = S.behaviour
    /\ sUnsubCalls' = S.unsubCalls
    /\ sLastSet' = S.lastSet
    /\ sEvents' = S.events
    /\ sNotifier' = S.notifier
    /\ sThrew' = S.threw
    /\ sOp' = op
    /\ UNCHANGED <<pickVars, routerVars, dashVars, predVars, overVars,
                   navVars, fmtVars, drvVars>>

OpRecord(op, arg, sub) ==
    [op |-> op, arg |-> arg, sub |-> sub, valueBefore |-> sValue,
     subsBefore |-> sSubscribers]

MaxSubscribes == 3

Subscribe ==
    /\ Len(sBehaviour) < MaxSubscribes
    /\ \E b \in Behaviours :
          Commit(StoreSubscribe(StoreRecord, b),
                 OpRecord("subscribe", b, Len(sBehaviour) + 1))

\* the first call of an unsubscribe function
Unsubscribe ==
    \E sub \in 1..Len(sUnsubCalls) :
        /\ sUnsubCalls[sub] = 0
        /\ Commit(StoreUnsubscribe(StoreRecord, sub), OpRecord("unsubscribe", "-", sub))

\* a second call of an unsubscribe function
UnsubscribeAgain ==
    \E sub \in 1..Len(sUnsubCalls) :
        /\ sUnsubCalls[sub] = 1
        /\ Commit(StoreUnsubscribe(StoreRecord, sub), OpRecord("unsubscribe", "-", sub))

Set ==
    \E v \in Values : Commit(StoreSet(StoreRecord, v), OpRecord("set", v, 0))

Update ==
    \E fn \in UpdateFns :
        Commit(StoreUpdate(StoreRecord, fn), OpRecord("update", fn, 0))

StoreInit ==
    /\ PickIdle
    /\ RouterIdle
    /\ PageIdle
    /\ sValue \in Values
    /\ sLastSet = sValue
    /\ sStop = "undefined"
    /\ sSubscribers = <<>>
    /\ subscriber_queue = <<>>
    /\ sStartKind \in StartKinds
    /\ sBehaviour = <<>>
    /\ sUnsubCalls = <<>>
    /\ sOp = NoOp
    /\ sEvents = <<>>
    /\ sNotifier = <<>>
    /\ sThrew = FALSE

StoreNext == Subscribe \/ Unsubscribe \/ UnsubscribeAgain \/ Set \/ Update

SpecStore == StoreInit /\ [][StoreNext]_vars

IsRun(e) == e.ev \in {"run", "queuedRun"}

\* The subscribers whose run callback the latest call ran with value v, in order
RunsWith(v) ==
    LET es == SelectSeq(sEvents, LAMBDA e : IsRun(e) /\ e.value = v)
    IN  [i \in 1..Len(es) |-> es[i].sub]

(***************************************************************************)
(* C5: for a store with subscribers and no notification in progress,       *)
(* set(v) with v different from the current value calls the run callback   *)
(* of every subscribed subscriber exactly once with v, in the order they   *)
(* subscribed; set(v) with a primitive v equal to the current value calls  *)
(* no callback and leaves the value unchanged.                             *)
(***************************************************************************)
C5_SetNotifiesInOrder ==
    (sOp.op = "set" /\ Len(sOp.subsBefore) > 0) =>
        /\ sOp.arg # sOp.valueBefore => RunsWith(sOp.arg) = sOp.subsBefore
        /\ (sOp.arg = sOp.valueBefore /\ ~IsObject(sOp.arg)) =>
                /\ sEvents = <<>>
                /\ sValue = sOp.valueBefore

\* a set of a new value reached three subscribers
C5_Witness ==
    /\ sOp.op = "set"
    /\ Len(sOp.subsBefore) = 3
    /\ sOp.arg # sOp.valueBefore
    /\ RunsWith(sOp.arg) = sOp.subsBefore

(***************************************************************************)
(* C6: subscribe(run) calls run synchronously exactly once before it       *)
(* returns, with the store's current value: the initial value or the       *)
(* value of the most recent set/update, including a set made while the     *)
(* store had no subscriber.                                                *)
(***************************************************************************)
DirectRuns == SelectSeq(sEvents, LAMBDA e : e.ev = "run")

C6_SubscribeRunsOnce ==
    sOp.op = "subscribe" =>
        /\ Len(DirectRuns) = 1
        /\ DirectRuns[1].sub = sOp.sub
        /\ DirectRuns[1].value = DirectRuns[1].last
        /\ sOp.arg = "plain" =>
              /\ Len(SelectSeq(sEvents, IsRun)) = 1
              /\ DirectRuns[1].value = sValue

\* a subscriber arrived after a set made while the store had no subscriber
C6_Witness ==
    /\ sOp.op = "subscribe"
    /\ sOp.subsBefore = <<>>
    /\ sStartKind = "noop"
    /\ sOp.sub > 1
    /\ Len(DirectRuns) = 1
    /\ DirectRuns[1].value = sValue
    /\ sValue = "obj"

(***************************************************************************)
(* C7: over any sequence of subscribe calls and single calls of the        *)
(* returned unsubscribe functions, the start notifier is called exactly    *)
(* when the number of subscribers goes from 0 to 1 and the stop function   *)
(* exactly when it goes from 1 to 0, so start and stop calls strictly      *)
(* alternate, beginning with start.                                        *)
(***************************************************************************)
SingleCalls == \A sub \in 1..Len(sUnsubCalls) : sUnsubCalls[sub] <= 1

C7_StartStopAlternate ==
    SingleCalls =>
        /\ ~sThrew
        /\ \A k \in 1..Len(sEvents) :
              /\ sEvents[k].ev = "start" =>
                    k > 1 /\ sEvents[k - 1].ev = "add" /\ sEvents[k - 1].size = 1
              /\ (sEvents[k].ev = "add" /\ sEvents[k].size = 1) =>
                    k < Len(sEvents) /\ sEvents[k + 1].ev = "start"
              /\ sEvents[k].ev = "stop" =>
                    k > 1 /\ sEvents[k - 1].ev = "delete" /\ sEvents[k - 1].size = 0
              /\ (sEvents[k].ev = "delete" /\ sEvents[k].size = 0) =>
                    k < Len(sEvents) /\ sEvents[k + 1].ev = "stop"
        /\ \A k \in 1..Len(sNotifier) :
              sNotifier[k] = IF k % 2 = 1 THEN "start" ELSE "stop"
        /\ (Len(sNotifier) % 2 = 1) <=> (Len(sSubscribers) > 0)

\* the store was started, stopped and started again
C7_Witness ==
    /\ SingleCalls
    /\ sNotifier = <<"start", "stop", "start">>
    /\ Len(sSubscribers) = 1

(***************************************************************************)
(* The statistics object and the helpers that read it                      *)
(*                                                                         *)
(* A response of /api/teams is [kind |-> "json", teams, played, offset]:   *)
(* teams are the keys of standings in order, played[t] the matchdays of    *)
(* form[t][_id] whose score is not null, and fixtures[t][m].date is day    *)
(* 7 * (m - 1) + offset[t] of a month whose day 1 is a Monday.  A          *)
(* response without standings is [kind |-> "malformed"].                   *)
(***************************************************************************)
NumMatchdays == 2

Matchdays == 1..NumMatchdays

TeamNames == {"Arsenal", "Aston Villa"}

\* str.toLowerCase().replace(/ /g, "-") on the names of the model
toHyphenatedName(team) ==
    CASE team = "Arsenal" -> "arsenal"
      [] team = "Aston Villa" -> "aston-villa"
      [] team = "Leeds United" -> "leeds-united"
      [] OTHER -> team

\* toTitleCase(hyphenatedTeam.replace(/\-/g, " ")) on the names of the model
toTitleCase(hyphenatedTeam) ==
    CASE hyphenatedTeam = "arsenal" -> "Arsenal"
      [] hyphenatedTeam = "aston-villa" -> "Aston Villa"
      [] hyphenatedTeam = "nope" -> "Nope"
      [] hyphenatedTeam = "overview" -> "Overview"
      [] OTHER -> hyphenatedTeam

SeqToSet(q) == { q[i] : i \in 1..Len(q) }

\* data.form[team] is defined: form has the keys of standings
HasForm(data, team) == team \in SeqToSet(data.teams)

\* The keys of an object whose keys are integers, in Object.keys order
RECURSIVE AscendingSeq(_)
AscendingSeq(set) ==
    IF set = {} THEN <<>>
    ELSE LET least == CHOOSE x \in set : \A y \in set : x <= y
         IN  <<least>> \o AscendingSeq(set \ {least})

playedMatchdays(data, team) == AscendingSeq(data.played[team])

\* currentMatchday taking the first played matchday, not the last
currentMatchdayFirst(data, team) ==
    IF data.played[team] = {} THEN 0
    ELSE CHOOSE m \in data.played[team] : \A n \in data.played[team] : m <= n

\* 0 is null
currentMatchday(data, team) ==
    IF data.played[team] = {} THEN 0
    ELSE CHOOSE m \in data.played[team] : \A n \in data.played[team] : m >= n

\* new Date(data.fixtures[team][matchday].date), as the day of the month
FixtureDate(data, team, matchday) == 7 * (matchday - 1) + data.offset[team]

\* The place of a date's weekday name in alphabetical order:
\* Fri < Mon < Sat < Sun < Thu < Tue < Wed
WeekdayRank(day) ==
    CASE day % 7 = 5 -> 1
      [] day % 7 = 1 -> 2
      [] day % 7 = 6 -> 3
      [] day % 7 = 0 -> 4
      [] day % 7 = 4 -> 5
      [] day % 7 = 2 -> 6
      [] OTHER -> 7

\* Array.prototype.sort is SortSeq of the TLC module.
\* sort() without a comparison orders Dates by String(date): the weekday
\* name first, then (within one month) the day
DateStringBefore(a, b) ==
    \/ WeekdayRank(a) < WeekdayRank(b)
    \/ WeekdayRank(a) = WeekdayRank(b) /\ a < b

NumericBefore(a, b) == a < b

playedMatchdayDates(data, team) ==
    LET played == playedMatchdays(data, team)
        matchdays == IF Len(played) = 0 THEN AscendingSeq(Matchdays) ELSE played
        median(i) ==
            LET matchdayDates == SortSeq(
                    [t \in 1..Len(data.teams) |->
                        FixtureDate(data, data.teams[t], matchdays[i])],
                    DateStringBefore)
            IN  matchdayDates[(Len(matchdayDates) \div 2) + 1]
    IN  SortSeq([i \in 1..Len(matchdays) |-> median(i)], NumericBefore)

(***************************************************************************)
(* Dashboard                                                               *)
(***************************************************************************)
\* data != undefined ? <page> : <loading spinner>
RendersSpinner(data) == data = NULL

DashTitle(team) == <<"Dashboard | ", team>>

Dates(x) == [defined |-> TRUE, x |-> x]

\* The fields of the component as one record
DashRecord ==
    [hyphenatedTeam |-> dHyphenatedTeam, team |-> dTeam, title |-> dTitle,
     teams |-> dTeams, currentMatchday |-> dCurrentMatchday,
     playedDates |-> dPlayedDates, data |-> dData, url |-> dUrl,
     navigated |-> dNavigated, threw |-> FALSE]

\* initDashboard up to the call of fetch
InitPrefix(D) ==
    IF D.hyphenatedTeam = "overview"
    THEN [D EXCEPT !.team = "Overview", !.title = DashTitle("Overview")]
    ELSE IF D.hyphenatedTeam # NoTeam
    THEN [D EXCEPT !.team = toTitleCase(D.hyphenatedTeam),
                   !.title = DashTitle(toTitleCase(D.hyphenatedTeam))]
    ELSE D

\* initDashboard: if (team != "Overview") { ... } data = json
InitTail(D, json) ==
    IF D.team = "Overview" THEN [D EXCEPT !.data = json]
    ELSE IF ~HasForm(json, D.team)
    THEN [D EXCEPT !.threw = TRUE]       \* json.form[team] is undefined
    ELSE [D EXCEPT !.currentMatchday = currentMatchday(json, D.team),
                   !.playedDates = Dates(playedMatchdayDates(json, D.team)),
                   !.data = json]

\* initDashboard from the resolution of response.json() to its end
InitContinuation(D, json) ==
    IF json.kind = "malformed" THEN [D EXCEPT !.threw = TRUE]
    ELSE LET D1 == [D EXCEPT !.teams = json.teams]
         IN  IF D1.hyphenatedTeam = NoTeam
             THEN IF Len(json.teams) = 0
                  THEN \* team is undefined: toHyphenatedName throws
                       [D1 EXCEPT !.team = "undefined",
                                  !.title = DashTitle("undefined"),
                                  !.threw = TRUE]
                  ELSE InitTail([D1 EXCEPT
                            !.team = json.teams[1],
                            !.title = DashTitle(json.teams[1]),
                            !.hyphenatedTeam = toHyphenatedName(json.teams[1]),
                            !.url = toHyphenatedName(json.teams[1])], json)
             ELSE IF D1.team # "Overview" /\ D1.team \notin SeqToSet(json.teams)
             THEN InitTail([D1 EXCEPT !.navigated = TRUE], json)
             ELSE InitTail(D1, json)

\* switchTeam(newTeam)
SwitchTeamResult(D, newTeam) ==
    IF newTeam = "overview"
    THEN [D EXCEPT !.hyphenatedTeam = newTeam, !.team = "Overview",
                   !.title = DashTitle("Overview"), !.url = newTeam]
    ELSE LET D1 == [D EXCEPT !.hyphenatedTeam = newTeam,
                             !.team = toTitleCase(newTeam),
                             !.title = DashTitle(toTitleCase(newTeam))]
         IN  IF D1.data = NULL \/ ~HasForm(D1.data, D1.team)
             THEN [D1 EXCEPT !.threw = TRUE]   \* data.form[team] is undefined
             ELSE [D1 EXCEPT
                     !.currentMatchday = currentMatchday(D1.data, D1.team),
                     !.playedDates = Dates(playedMatchdayDates(D1.data, D1.team)),
                     !.url = newTeam]

DashCommit(D) ==
    /\ dHyphenatedTeam' = D.hyphenatedTeam
    /\ dTeam' = D.team
    /\ dTitle' = D.title
    /\ dTeams' = D.teams
    /\ dCurrentMatchday' = D.currentMatchday
    /\ dPlayedDates' = D.playedDates
    /\ dData' = D.data
    /\ dUrl' = D.url
    /\ dNavigated' = D.navigated
    /\ dThrew' = D.threw

\* onMount: initDashboard() runs to its first await
DashMount ==
    /\ dPc = "created"
    /\ DashCommit(InitPrefix(DashRecord))
    /\ dFetchCalls' = dFetchCalls + 1
    /\ dPc' = "fetching"
    /\ dOp' = "mount"
    /\ UNCHANGED <<dFetchFailed, dFetched>>
    /\ UNCHANGED <<pickVars, routerVars, storeVars, predVars, overVars,
                   navVars, fmtVars, drvVars>>

DashFetchResolve ==
    /\ dPc = "fetching"
    /\ ~dNavigated
    /\ dPc' = "decoding"
    /\ dOp' = "response"
    /\ dThrew' = FALSE
    /\ UNCHANGED <<dHyphenatedTeam, dTeam, dTitle, dTeams, dCurrentMatchday,
                   dPlayedDates, dData, dUrl, dNavigated, dFetchCalls,
                   dFetchFailed, dFetched>>
    /\ UNCHANGED <<pickVars, routerVars, storeVars, predVars, overVars,
                   navVars, fmtVars, drvVars>>

\* A rejection that calls fetch again
DashFetchRejectRetry ==
    /\ dPc \in {"fetching", "decoding"}
    /\ ~dNavigated
    /\ dPc' = "fetching"
    /\ dFetchCalls' = dFetchCalls + 1
    /\ dFetchFailed' = TRUE
    /\ dOp' = "reject"
    /\ dThrew' = FALSE
    /\ UNCHANGED <<dHyphenatedTeam, dTeam, dTitle, dTeams, dCurrentMatchday,
                   dPlayedDates, dData, dUrl, dNavigated, dFetched>>
    /\ UNCHANGED <<pickVars, routerVars, storeVars, predVars, overVars,
                   navVars, fmtVars, drvVars>>

\* fetch(...) or response.json() rejects: initDashboard's promise rejects
DashFetchReject ==
    /\ dPc \in {"fetching", "decoding"}
    /\ ~dNavigated
    /\ dPc' = "rejected"
    /\ dFetchFailed' = TRUE
    /\ dOp' = "reject"
    /\ dThrew' = FALSE
    /\ UNCHANGED <<dHyphenatedTeam, dTeam, dTitle, dTeams, dCurrentMatchday,
                   dPlayedDates, dData, dUrl, dNavigated, dFetchCalls, dFetched>>
    /\ UNCHANGED <<pickVars, routerVars, storeVars, predVars, overVars,
                   navVars, fmtVars, drvVars>>

JsonOffsets == { [t \in TeamNames |-> IF t = "Arsenal" THEN 5 ELSE 6],
                 [t \in TeamNames |-> IF t = "Arsenal" THEN 1 ELSE 5] }

TeamsJsons ==
    { [kind |-> "json", teams |-> <<"Arsenal", "Aston Villa">>,
       played |-> pl, offset |-> off] :
          pl \in [TeamNames -> SUBSET Matchdays], off \in JsonOffsets }
    \cup { [kind |-> "json", teams |-> <<>>, played |-> <<>>, offset |-> <<>>],
           [kind |-> "malformed"] }

DashJsonResolve ==
    /\ dPc = "decoding"
    /\ ~dNavigated
    /\ \E json \in TeamsJsons :
          LET D == InitContinuation(DashRecord, json)
          IN  /\ DashCommit(D)
              /\ dFetched' = json
              /\ dPc' = IF D.threw THEN "rejected" ELSE "done"
    /\ dOp' = "json"
    /\ UNCHANGED <<dFetchCalls, dFetchFailed>>
    /\ UNCHANGED <<pickVars, routerVars, storeVars, predVars, overVars,
                   navVars, fmtVars, drvVars>>

\* The buttons of Nav, MobileNav, TableSnippet and NextGame call switchTeam
\* with the hyphenated name of a team of teams or of data; the overview
\* link calls it with "overview"
SwitchTargets ==
    {"overview"} \cup { toHyphenatedName(dTeams[i]) : i \in 1..Len(dTeams) }

SwitchTeam ==
    /\ dPc # "created"
    /\ ~dNavigated
    /\ \E newTeam \in SwitchTargets :
          DashCommit(SwitchTeamResult(DashRecord, newTeam))
    /\ dOp' = "switchTeam"
    /\ UNCHANGED <<dPc, dFetchCalls, dFetchFailed, dFetched>>
    /\ UNCHANGED <<pickVars, routerVars, storeVars, predVars, overVars,
                   navVars, fmtVars, drvVars>>

(***************************************************************************)
(* Predictions                                                             *)
(*                                                                         *)
(* Goals are held in tenths of a goal; a prediction without a colour       *)
(* property has colour "".                                                 *)
(***************************************************************************)
\* Math.round of a non-negative number of tenths, in whole goals
Round(tenths) == (tenths + 5) \div 10

identicalScore(prediction, actual) ==
    /\ Round(prediction.homeGoals) * 10 = actual.homeGoals
    /\ Round(prediction.awayGoals) * 10 = actual.awayGoals

sameResult(prediction, actual) ==
    \/ /\ Round(prediction.homeGoals) > Round(prediction.awayGoals)
       /\ Round(actual.homeGoals) > Round(actual.awayGoals)
    \/ /\ Round(prediction.homeGoals) = Round(prediction.awayGoals)
       /\ Round(actual.homeGoals) = Round(actual.awayGoals)
    \/ /\ Round(prediction.homeGoals) < Round(prediction.awayGoals)
       /\ Round(actual.homeGoals) < Round(actual.awayGoals)

LaterDay(a, b) == a._id > b._id

EarlierTime(a, b) == a.datetime < b.datetime

sortByDate(predictions) ==
    LET days == SortSeq(predictions, LaterDay)
    IN  [i \in 1..Len(days) |->
            [days[i] EXCEPT !.predictions = SortSeq(@, EarlierTime)]]

ColourOf(prediction) ==
    IF prediction.actual = NULL THEN prediction.colour
    ELSE IF identicalScore(prediction.prediction, prediction.actual) THEN "green"
    ELSE IF sameResult(prediction.prediction, prediction.actual) THEN "yellow"
    ELSE "red"

RECURSIVE CountColours(_, _)
CountColours(predictions, colours) ==
    IF Len(predictions) = 0 THEN 0
    ELSE (IF predictions[1].actual # NULL /\ ColourOf(predictions[1]) \in colours
          THEN 1 ELSE 0) + CountColours(Tail(predictions), colours)

RECURSIVE SumDays(_, _)
SumDays(days, colours) ==
    IF Len(days) = 0 THEN 0
    ELSE CountColours(days[1].predictions, colours) + SumDays(Tail(days), colours)

\* A quotient is kept as <<numerator, denominator>>; <<0, 0>> is NaN
insertExtras(json) ==
    [predictions |->
        [i \in 1..Len(json.predictions) |->
            LET day == json.predictions[i]
            IN  [day EXCEPT !.predictions =
                    [j \in 1..Len(day.predictions) |->
                        [day.predictions[j] EXCEPT
                            !.colour = ColourOf(day.predictions[j])]]]],
     accuracy |->
        [scoreAccuracy |-> <<SumDays(json.predictions, {"green"}),
                             SumDays(json.predictions, {"green", "yellow", "red"})>>,
         resultAccuracy |-> <<SumDays(json.predictions, {"green", "yellow"}),
                              SumDays(json.predictions, {"green", "yellow", "red"})>>]]

Score(h, a) == [homeGoals |-> h, awayGoals |-> a]

Prediction(datetime, prediction, actual) ==
    [datetime |-> datetime, prediction |-> prediction, actual |-> actual,
     colour |-> ""]

PredictionDays ==
    { [_id |-> 1, predictions |->
          << Prediction(20, Score(14, 6), Score(10, 10)),
             Prediction(10, Score(26, 4), Score(20, 0)) >>],
      [_id |-> 2, predictions |->
          << Prediction(15, Score(4, 16), NULL),
             Prediction(12, Score(4, 16), Score(10, 0)) >>] }

\* The arrays /api/predictions answers with; "malformed" is not an array
PredictionsJsons ==
    { [kind |-> "array", days |-> days] :
        days \in { <<>> } \cup { <<d>> : d \in PredictionDays }
                 \cup { <<d, e>> : d \in PredictionDays,
                                   e \in PredictionDays } }
    \cup { [kind |-> "malformed"] }

PredMount ==
    /\ pPc = "created"
    /\ pFetchCalls' = pFetchCalls + 1
    /\ pPc' = "fetching"
    /\ UNCHANGED <<pData, pFetchFailed>>
    /\ UNCHANGED <<pickVars, routerVars, storeVars, dashVars, overVars,
                   navVars, fmtVars, drvVars>>

PredFetchResolve ==
    /\ pPc = "fetching"
    /\ pPc' = "decoding"
    /\ UNCHANGED <<pData, pFetchCalls, pFetchFailed>>
    /\ UNCHANGED <<pickVars, routerVars, storeVars, dashVars, overVars,
                   navVars, fmtVars, drvVars>>

\* fetch(...) or response.json() rejects: the callback's promise rejects
PredFetchReject ==
    /\ pPc \in {"fetching", "decoding"}
    /\ pPc' = "rejected"
    /\ pFetchFailed' = TRUE
    /\ UNCHANGED <<pData, pFetchCalls>>
    /\ UNCHANGED <<pickVars, routerVars, storeVars, dashVars, overVars,
                   navVars, fmtVars, drvVars>>

PredJsonResolve ==
    /\ pPc = "decoding"
    /\ \E json \in PredictionsJsons :
          IF json.kind = "malformed"
          THEN pPc' = "rejected" /\ pData' = pData   \* json.sort is not a function
          ELSE /\ pData' = insertExtras([predictions |-> sortByDate(json.days)])
               /\ pPc' = "done"
    /\ UNCHANGED <<pFetchCalls, pFetchFailed>>
    /\ UNCHANGED <<pickVars, routerVars, storeVars, dashVars, overVars,
                   navVars, fmtVars, drvVars>>

(***************************************************************************)
(* The two pages, each mounted once                                        *)
(***************************************************************************)
\* hyphenatedTeam is null on "/" and the :team parameter on "/:team"
HyphenatedProps == {NoTeam, "arsenal", "aston-villa", "overview", "nope"}

\* <Dashboard hyphenatedTeam={...}/> and <Predictions/> after construction
PagesInit ==
    /\ PickIdle /\ RouterIdle /\ StoreIdle /\ PredIdle /\ OverIdle /\ RestIdle
    /\ dPc = "created"
    /\ dHyphenatedTeam \in HyphenatedProps
    /\ dTeam = ""
    /\ dTitle = <<"Dashboard">>
    /\ dTeams = <<>>
    /\ dCurrentMatchday = -1
    /\ dPlayedDates = NoDates
    /\ dData = NULL
    /\ dUrl = ""
    /\ dNavigated = FALSE
    /\ dFetchCalls = 0
    /\ dFetchFailed = FALSE
    /\ dFetched = NULL
    /\ dOp = "none"
    /\ dThrew = FALSE

PagesNext ==
    \/ DashMount
    \/ DashFetchResolve
    \/ DashFetchReject
    \/ DashJsonResolve
    \/ SwitchTeam
    \/ PredMount
    \/ PredFetchResolve
    \/ PredFetchReject
    \/ PredJsonResolve

SpecPages == PagesInit /\ [][PagesNext]_vars

(***************************************************************************)
(* Overview                                                                *)
(*                                                                         *)
(* An object is a function from its property names to their values, so     *)
(* that a property added to it shows in its domain.  Ratings and home      *)
(* advantages are held in hundredths.                                      *)
(***************************************************************************)
\* obj[k] = v
SetProp(obj, k, v) ==
    [x \in DOMAIN obj \cup {k} |-> IF x = k THEN v ELSE obj[x]]

\* Array.prototype.sort with a comparison function, which is stable:
\* before[i][j] is compare(q[i], q[j]) < 0
StableSort(q, before) ==
    LET place(i) ==
            1 + Cardinality({ j \in 1..Len(q) :
                    \/ before[j][i]
                    \/ ~before[i][j] /\ j < i })
    IN  [r \in 1..Len(q) |-> q[CHOOSE i \in 1..Len(q) : place(i) = r]]

FixtureColours ==
    << "#00fe87", "#63fb6e", "#8df755", "#aef23e", "#cbec27", "#e6e50f",
       "#ffdd00", "#ffc400", "#ffab00", "#ff9000", "#ff7400", "#ff5618",
       "#f83027" >>

fixtureColourSkewed(scaleVal) ==
    IF scaleVal < 5 THEN FixtureColours[1]
    ELSE IF scaleVal >= 60 THEN FixtureColours[13]
    ELSE FixtureColours[(scaleVal \div 5) + 1]

\* for (let team in obj): the keys of the objects of the model, in order
KeysOf(obj) ==
    SelectSeq(<<"Arsenal", "Aston Villa">>, LAMBDA t : t \in DOMAIN obj)

EarlierKickoff(a, b) == a.time < b.time

upcomingMatches(data) ==
    LET teams == KeysOf(data.upcoming)
        home == SelectSeq(teams, LAMBDA t : data.upcoming[t].atHome)
        upcoming == [i \in 1..Len(home) |->
                       [time |-> data.upcoming[home[i]].date,
                        home |-> home[i],
                        away |-> data.upcoming[home[i]].nextTeam]]
    IN  StableSort(upcoming,
                   [i \in 1..Len(home) |-> [j \in 1..Len(home) |->
                       EarlierKickoff(upcoming[i], upcoming[j])]])

\* data.standings[team][data._id] is an object
HasSeasonRow(data, team) == data._id \in DOMAIN data.standings[team]

\* Object(value) is value itself if value is an object, and a new empty
\* object if value is undefined
Object(data, team) ==
    IF HasSeasonRow(data, team)
    THEN [fresh |-> FALSE, props |-> data.standings[team][data._id]]
    ELSE [fresh |-> TRUE, props |-> <<>>]

\* a.position - b.position < 0; with an undefined position it is NaN
HigherPlace(a, b) ==
    /\ "position" \in DOMAIN a /\ "position" \in DOMAIN b
    /\ a.position < b.position

\* standingsTable(): the rows it returns and what it leaves in data
standingsTable(data) ==
    LET teams == KeysOf(data.standings)
        row(team) == SetProp(Object(data, team).props, "team", team)
        written == { t \in DOMAIN data.standings : ~Object(data, t).fresh }
        standings == [i \in 1..Len(teams) |-> row(teams[i])]
    IN  [standings |->
            StableSort(standings,
                       [i \in 1..Len(teams) |-> [j \in 1..Len(teams) |->
                           HigherPlace(standings[i], standings[j])]]),
         data |-> [data EXCEPT !.standings =
                     [t \in DOMAIN data.standings |->
                        IF t \in written
                        THEN [data.standings[t] EXCEPT ![data._id] = row(t)]
                        ELSE data.standings[t]]]]

fixturesTable(data, standings) ==
    [i \in 1..Len(standings) |->
        LET team == standings[i].team
            matchdays == AscendingSeq(DOMAIN data.fixtures[team])
            made(matchday) ==
                LET fixture == data.fixtures[team][matchday]
                    homeAdvantage ==
                        IF fixture.atHome THEN 0
                        ELSE data.homeAdvantages[fixture.team].totalHomeAdvantage
                IN  [team |-> fixture.team, date |-> fixture.date,
                     atHome |-> fixture.atHome, status |-> fixture.status,
                     colour |-> fixtureColourSkewed(
                         data.teamRatings[fixture.team].totalRating
                         + homeAdvantage)]
        IN  [team |-> team,
             matches |-> [j \in 1..Len(matchdays) |-> made(matchdays[j])]]]

\* onMount: upcoming, standings and fixtures are computed from data
OverviewMount ==
    /\ oPc = "created"
    /\ LET table == standingsTable(oData)
       IN  /\ oUpcoming' = upcomingMatches(oData)
           /\ oStandings' = table.standings
           /\ oData' = table.data
           /\ oFixtures' = fixturesTable(table.data, table.standings)
    /\ oPc' = "mounted"
    /\ UNCHANGED oFetched
    /\ UNCHANGED <<pickVars, routerVars, storeVars, dashVars, predVars,
                   navVars, fmtVars, drvVars>>

\* The Dashboard leaves the overview and comes back to it: a new Overview
\* is created on the same data object
OverviewRecreate ==
    /\ oPc = "mounted"
    /\ oPc' = "created"
    /\ oUpcoming' = NULL
    /\ oStandings' = NULL
    /\ oFixtures' = NULL
    /\ UNCHANGED <<oData, oFetched>>
    /\ UNCHANGED <<pickVars, routerVars, storeVars, dashVars, predVars,
                   navVars, fmtVars, drvVars>>

Row(position, points) == [position |-> position, points |-> points]

Fixture(team, date, atHome) ==
    [team |-> team, date |-> date, atHome |-> atHome, status |-> "SCHEDULED"]

Opponent(team) == IF team = "Arsenal" THEN "Aston Villa" ELSE "Arsenal"

\* The statistics objects the Dashboard passes to Overview
OverviewDatas ==
    { [_id |-> 2023,
       standings |->
         [t \in TeamNames |->
            IF t \in present
            THEN (2022 :> Row(5, 60)) @@ (2023 :> Row(IF t = first THEN 1 ELSE 2, 3))
            ELSE (2022 :> Row(5, 60))],
       form |->
         [t \in TeamNames |-> (2023 :> (1 :> [score |-> NULL, team |-> Opponent(t)]))],
       fixtures |->
         [t \in TeamNames |->
            (1 :> Fixture(Opponent(t), 3, t = "Arsenal"))
            @@ (2 :> Fixture(Opponent(t), 10, t # "Arsenal"))],
       upcoming |->
         [t \in TeamNames |->
            [date |-> IF t = early THEN 3 ELSE 4, atHome |-> home[t],
             nextTeam |-> Opponent(t)]],
       homeAdvantages |->
         [t \in TeamNames |-> [totalHomeAdvantage |-> IF t = "Arsenal" THEN 12 ELSE 4]],
       teamRatings |->
         [t \in TeamNames |-> [totalRating |-> IF t = "Arsenal" THEN 55 ELSE 21]]] :
         present \in SUBSET TeamNames, first \in TeamNames,
         early \in TeamNames, home \in [TeamNames -> BOOLEAN] }

\* <Overview data={data}/> after construction
OverviewInit ==
    /\ PickIdle /\ RouterIdle /\ StoreIdle /\ DashIdle /\ PredIdle /\ RestIdle
    /\ oPc = "created"
    /\ oData \in OverviewDatas
    /\ oFetched = oData
    /\ oUpcoming = NULL
    /\ oStandings = NULL
    /\ oFixtures = NULL

OverviewNext ==
    \/ OverviewMount
    \/ OverviewRecreate

SpecOverview == OverviewInit /\ [][OverviewNext]_vars

(***************************************************************************)
(* C10: after Overview has computed upcoming, standings and fixtures from  *)
(* data, every entry of data.standings, data.form, data.fixtures and       *)
(* data.upcoming is as it was before.                                      *)
(***************************************************************************)
C10_DataReadOnly ==
    oPc = "mounted" =>
        /\ oData.standings = oFetched.standings
        /\ oData.form = oFetched.form
        /\ oData.fixtures = oFetched.fixtures
        /\ oData.upcoming = oFetched.upcoming

(***************************************************************************)
(* C8: once the fetch of the statistics or the decoding of its JSON has    *)
(* rejected, data stays unassigned, so the Dashboard, and likewise the     *)
(* Predictions page, renders the loading spinner in every later state,     *)
(* and fetch has been called once and is not called again.                 *)
(***************************************************************************)
C8_FetchFailureLeavesSpinner ==
    /\ dFetchFailed =>
          dData = NULL /\ RendersSpinner(dData) /\ dFetchCalls = 1
    /\ pFetchFailed =>
          pData = NULL /\ RendersSpinner(pData) /\ pFetchCalls = 1

\* Both fetches have failed and switchTeam has run on the Dashboard since
C8_Witness ==
    /\ dFetchFailed /\ dPc = "rejected" /\ dOp = "switchTeam"
    /\ pFetchFailed /\ pPc = "rejected"

(***************************************************************************)
(* C9: fetch is called exactly once, by initDashboard at mount; a          *)
(* switchTeam call leaves the number of fetch calls and data as they       *)
(* were, and for a team it sets currentMatchday to the last played         *)
(* matchday of that team in data (null when it has played none) and        *)
(* playedDates to the played matchday dates computed from data.            *)
(***************************************************************************)
LastPlayed(data, team) ==
    IF data.played[team] = {} THEN 0
    ELSE CHOOSE m \in data.played[team] : \A n \in data.played[team] : n <= m

C9_SwitchTeamNeverFetches ==
    [][ /\ dFetchCalls' = (IF dPc' = "created" THEN 0 ELSE 1)
        /\ dOp' = "switchTeam" =>
              /\ dFetchCalls' = dFetchCalls
              /\ dData' = dData
              /\ dTeam' # "Overview" =>
                    /\ dData # NULL
                    /\ ~dThrew'
                    /\ dHyphenatedTeam' = toHyphenatedName(dTeam')
                    /\ dCurrentMatchday' = LastPlayed(dData, dTeam')
                    /\ dPlayedDates' = Dates(playedMatchdayDates(dData, dTeam'))
      ]_vars

\* switchTeam has moved the Dashboard from the team it was mounted with to
\* another team whose last played matchday differs from its first
C9_Witness ==
    /\ dOp = "switchTeam" /\ dTeam = "Aston Villa" /\ dFetchCalls = 1
    /\ dData # NULL
    /\ dData.played["Aston Villa"] = Matchdays
    /\ dData.played["Arsenal"] = {}
    /\ dCurrentMatchday = NumMatchdays

(***************************************************************************)
(* Nav                                                                     *)
(*                                                                         *)
(* The HTML a render returns is kept as the sequence of its elements.      *)
(***************************************************************************)
\* The number of placeholder widths a render draws (the component draws 20)
Placeholders == 2

\* Math.floor(Math.random() * 8)
RandomDraws == 0..7

\* 35 + Math.floor(Math.random() * 8) * 5
PlaceholderWidth(draw) == 35 + draw * 5

toAlias(team) ==
    CASE team = "Leeds United" -> "Leeds"
      [] OTHER -> team

teamStyle(team) ==
    <<"background: var(--", toHyphenatedName(team), "); color: var(--",
      toHyphenatedName(team), "-secondary);">>

\* The template of Nav, for the widths its script block drew
NavHtml(team, teams, widths) ==
    IF Len(teams) = 0
    THEN [i \in 1..Len(widths) |->
            [tag |-> "div", class |-> "placeholder", width |-> widths[i]]]
    ELSE [i \in 1..Len(teams) |->
            IF toHyphenatedName(teams[i]) = team
            THEN [tag |-> "a", href |-> <<"/", toHyphenatedName(teams[i])>>,
                  style |-> teamStyle(teams[i]), text |-> toAlias(teams[i])]
            ELSE [tag |-> "button", text |-> toAlias(teams[i])]]

MaxRenders == 2

\* Nav.$$render({ team, teams, toAlias, switchTeam })
NavRender ==
    /\ Len(nOutputs) < MaxRenders
    /\ \E draws \in [1..Placeholders -> RandomDraws] :
          nOutputs' = Append(nOutputs,
              NavHtml(nTeam, nTeams,
                      [i \in 1..Placeholders |-> PlaceholderWidth(draws[i])]))
    /\ UNCHANGED <<nTeam, nTeams>>
    /\ UNCHANGED <<pickVars, routerVars, storeVars, dashVars, predVars,
                   overVars, fmtVars, drvVars>>

NavTeamLists == { <<>>, <<"Arsenal", "Leeds United">> }

NavInit ==
    /\ PickIdle /\ RouterIdle /\ StoreIdle
    /\ DashIdle /\ PredIdle /\ OverIdle /\ FmtIdle /\ DrvIdle
    /\ nTeam \in {"arsenal", "overview"}
    /\ nTeams \in NavTeamLists
    /\ nOutputs = <<>>

NavNext == NavRender

SpecNav == NavInit /\ [][NavNext]_vars

(***************************************************************************)
(* C11: rendering a component twice with the same props yields the same    *)
(* HTML; in particular two renders of Nav with the same props, the empty   *)
(* teams list included, return identical output.                           *)
(***************************************************************************)
C11_NavRendersEqual ==
    Len(nOutputs) = MaxRenders => nOutputs[1] = nOutputs[2]

(***************************************************************************)
(* tableSnippetRange and toInitials                                        *)
(***************************************************************************)
\* sortedTeams.indexOf(team)
IndexOfTeam(sortedTeams, team) ==
    IF \E i \in 1..Len(sortedTeams) : sortedTeams[i] = team
    THEN (CHOOSE i \in 1..Len(sortedTeams) :
            /\ sortedTeams[i] = team
            /\ \A j \in 1..(i - 1) : sortedTeams[j] # team) - 1
    ELSE -1

tableSnippetRange(sortedTeams, team) ==
    LET teamStandingsIdx == IndexOfTeam(sortedTeams, team)
        low0 == teamStandingsIdx - 3
        high0 == teamStandingsIdx + 4
        low1 == IF low0 < 0 THEN 0 ELSE low0
        high1 == IF low0 < 0 THEN high0 - low0 ELSE high0
        overflow == high1 - Len(sortedTeams)
    IN  IF high1 > Len(sortedTeams) - 1
        THEN [low |-> low1 - overflow, high |-> Len(sortedTeams)]
        ELSE [low |-> low1, high |-> high1]

LowerCase ==
    << "a", "b", "c", "d", "e", "f", "g", "h", "i", "j", "k", "l", "m",
       "n", "o", "p", "q", "r", "s", "t", "u", "v", "w", "x", "y", "z" >>

UpperCase ==
    << "A", "B", "C", "D", "E", "F", "G", "H", "I", "J", "K", "L", "M",
       "N", "O", "P", "Q", "R", "S", "T", "U", "V", "W", "X", "Y", "Z" >>

\* String.prototype.toUpperCase on one character
CharToUpperCase(c) ==
    IF \E i \in 1..26 : LowerCase[i] = c
    THEN UpperCase[CHOOSE i \in 1..26 : LowerCase[i] = c]
    ELSE c

toUpperCase(str) == [i \in 1..Len(str) |-> CharToUpperCase(str[i])]

\* The case labels of toInitials, as sequences of characters
Str1 == <<"B", "r", "i", "g", "h", "t", "o", "n", " ", "a", "n", "d", " ", "H", "o", "v", "e", " ", "A", "l", "b", "i", "o", "n">>   \* Brighton and Hove Albion
Str2 == <<"M", "a", "n", "c", "h", "e", "s", "t", "e", "r", " ", "C", "i", "t", "y">>   \* Manchester City
Str3 == <<"M", "a", "n", "c", "h", "e", "s", "t", "e", "r", " ", "U", "n", "i", "t", "e", "d">>   \* Manchester United
Str4 == <<"A", "s", "t", "o", "n", " ", "V", "i", "l", "l", "a">>   \* Aston Villa
Str5 == <<"S", "h", "e", "f", "f", "i", "e", "l", "d", " ", "U", "n", "i", "t", "e", "d">>   \* Sheffield United
Str6 == <<"W", "e", "s", "t", " ", "B", "r", "o", "m", "w", "i", "c", "h", " ", "A", "l", "b", "i", "o", "n">>   \* West Bromwich Albion
Str7 == <<"W", "e", "s", "t", " ", "H", "a", "m", " ", "U", "n", "i", "t", "e", "d">>   \* West Ham United

\* toInitials without its switch
toInitialsSliceOnly(team) == toUpperCase(SliceTo(team, 3))

toInitials(team) ==
    CASE team = Str1 -> <<"B", "H", "A">>
      [] team = Str2 -> <<"M", "C", "I">>
      [] team = Str3 -> <<"M", "U", "N">>
      [] team = Str4 -> <<"A", "V", "L">>
      [] team = Str5 -> <<"S", "H", "U">>
      [] team = Str6 -> <<"W", "B", "A">>
      [] team = Str7 -> <<"W", "H", "U">>
      [] OTHER -> toUpperCase(SliceTo(team, 3))

MaxTableLen == 9

\* The league tables: teams are numbered in the order of their position
Tables == { [i \in 1..n |-> i] : n \in 1..MaxTableLen }

\* The names of clubs toInitials is called with
ClubNames ==
    { Str1, Str2, Str3, Str4, Str5, Str6, Str7,
      <<"A", "r", "s", "e", "n", "a", "l">>,
      <<"A", "F", "C", " ", "B", "o", "u", "r", "n", "e", "m", "o", "u", "t", "h">>,
      <<"L", "e", "e", "d", "s", " ", "U", "n", "i", "t", "e", "d">>,
      <<"M", "a", "n", "c", "h", "e", "s", "t", "e", "r">>,
      <<"N", "o", "t", "t", "i", "n", "g", "h", "a", "m", " ", "F", "o", "r", "e", "s", "t">>,
      <<"W", "e", "s", "t", " ", "H", "a", "m">> }

CallTableSnippetRange ==
    /\ tRange = NotCalled
    /\ tRange' = tableSnippetRange(tTable, tTeam)
    /\ UNCHANGED <<tTable, tTeam, iName, iResult>>
    /\ UNCHANGED <<pickVars, routerVars, storeVars, dashVars, predVars,
                   overVars, navVars, drvVars>>

CallToInitials ==
    /\ iResult = NotCalled
    /\ iResult' = [initials |-> toInitials(iName)]
    /\ UNCHANGED <<tTable, tTeam, tRange, iName>>
    /\ UNCHANGED <<pickVars, routerVars, storeVars, dashVars, predVars,
                   overVars, navVars, drvVars>>

FormatInit ==
    /\ PickIdle /\ RouterIdle /\ StoreIdle
    /\ DashIdle /\ PredIdle /\ OverIdle /\ NavIdle /\ DrvIdle
    /\ tTable \in Tables
    /\ tTeam \in SeqToSet(tTable)
    /\ tRange = NotCalled
    /\ iName \in ClubNames
    /\ iResult = NotCalled

FormatNext ==
    \/ CallTableSnippetRange
    \/ CallToInitials

SpecFormat == FormatInit /\ [][FormatNext]_vars

(***************************************************************************)
(* C12: for a team at index idx of sortedTeams, tableSnippetRange returns  *)
(* [low, high] with 0 <= low <= idx < high <= sortedTeams.length; a table  *)
(* of at least 7 teams gives exactly 7 rows, and the team is the middle    *)
(* row when at least three teams stand above it and three below it.        *)
(***************************************************************************)
C12_SnippetContainsTeam ==
    tRange # NotCalled =>
        LET idx == tTeam - 1
        IN  /\ 0 <= tRange.low /\ tRange.low <= idx
            /\ idx < tRange.high /\ tRange.high <= Len(tTable)
            /\ Len(tTable) >= 7 => tRange.high - tRange.low = 7
            /\ (idx >= 3 /\ Len(tTable) - 1 - idx >= 3) => idx = tRange.low + 3

(***************************************************************************)
(* C15: for every club name toInitials returns three upper-case letters:   *)
(* the listed code for each of the seven clubs of its switch, and          *)
(* otherwise the first three characters of the name in upper case.         *)
(***************************************************************************)
ListedCodes ==
    { <<Str1, <<"B", "H", "A">> >>, <<Str2, <<"M", "C", "I">> >>,
      <<Str3, <<"M", "U", "N">> >>, <<Str4, <<"A", "V", "L">> >>,
      <<Str5, <<"S", "H", "U">> >>, <<Str6, <<"W", "B", "A">> >>,
      <<Str7, <<"W", "H", "U">> >> }

C15_ToInitialsCode ==
    iResult # NotCalled =>
        /\ Len(iResult.initials) = 3
        /\ \A i \in 1..3 : \E k \in 1..26 : iResult.initials[i] = UpperCase[k]
        /\ \A pair \in ListedCodes :
              iName = pair[1] => iResult.initials = pair[2]
        /\ (\A pair \in ListedCodes : iName # pair[1]) =>
              \A i \in 1..3 :
                 \/ iResult.initials[i] = iName[i]
                 \/ \E k \in 1..26 : /\ iName[i] = LowerCase[k]
                                      /\ iResult.initials[i] = UpperCase[k]

\* toInitials has returned the listed code of a club whose first three
\* letters are another club's code
C15_Witness ==
    /\ iResult # NotCalled
    /\ iName = Str2
    /\ iResult.initials = <<"M", "C", "I">>

(***************************************************************************)
(* C13: of two routes that are equal except for the type of one segment,   *)
(* rankRoute gives the strictly higher score to the one whose segment      *)
(* comes first in static > dynamic > splat > root.                         *)
(***************************************************************************)
\* The place of a segment's type in "static > dynamic > splat > root"
DocumentedRank(segment) ==
    IF isRootSegment(segment) THEN 1
    ELSE IF isDynamic(segment) THEN 3
    ELSE IF isSplat(segment) THEN 2
    ELSE 4

\* The segments of a and b differ at position k only
DifferAtOnly(a, b, k) ==
    /\ Len(a) = Len(b)
    /\ k \in 1..Len(a)
    /\ a[k] # b[k]
    /\ \A i \in 1..Len(a) : i # k => a[i] = b[i]

C13_SegmentTypeOrder ==
    pkRankDone =>
        \A i \in 1..Len(pkRanked) : \A j \in 1..Len(pkRanked) :
            LET a == segmentize(pkRanked[i].route.path)
                b == segmentize(pkRanked[j].route.path)
            IN  (~pkRanked[i].route.default /\ ~pkRanked[j].route.default) =>
                    \A k \in 1..Len(a) :
                        (DifferAtOnly(a, b, k)
                            /\ DocumentedRank(a[k]) > DocumentedRank(b[k]))
                        => pkRanked[i].score > pkRanked[j].score

(***************************************************************************)
(* C14: rankRoutes returns every route of its input once, sorted by score  *)
(* in descending order; routes of the same score stand in the order of     *)
(* their indices in the input, the lower index first.                      *)
(***************************************************************************)
C14_RankRoutesStable ==
    pkRankDone =>
        /\ Len(pkRanked) = Len(pkRoutes)
        /\ \A n \in 1..Len(pkRoutes) : \E i \in 1..Len(pkRanked) :
              /\ pkRanked[i].index = n - 1
              /\ pkRanked[i].route = pkRoutes[n]
              /\ pkRanked[i].score = ScoreOf(pkRoutes[n])
        /\ \A i \in 1..Len(pkRanked) : \A j \in 1..Len(pkRanked) :
              i < j =>
                \/ pkRanked[i].score > pkRanked[j].score
                \/ /\ pkRanked[i].score = pkRanked[j].score
                   /\ pkRanked[i].index < pkRanked[j].index

\* rankRoutes has moved a route in front of two routes of one score, which
\* kept their order
C14_Witness ==
    /\ pkRankDone
    /\ Len(pkRanked) = 3
    /\ pkRanked[1].index = 2
    /\ pkRanked[2].score = pkRanked[3].score
    /\ pkRanked[2].index = 0 /\ pkRanked[3].index = 1

(***************************************************************************)
(* C16: when a run callback calls set on the store during a notification,  *)
(* every subscriber receives the outer value before any subscriber         *)
(* receives the nested one, each of them once; when the outermost set      *)
(* returns, subscriber_queue is empty and the last value each subscriber   *)
(* received is the store's value.                                          *)
(***************************************************************************)
RunEvents == SelectSeq(sEvents, IsRun)

\* The values the latest call delivered to subscriber sub, in order
ReceivedBy(sub) ==
    LET es == SelectSeq(sEvents, LAMBDA e : IsRun(e) /\ e.sub = sub)
    IN  [i \in 1..Len(es) |-> es[i].value]

\* The latest call was a set whose notification ran a callback that set
\* NestedValue
NestedSetHappened ==
    /\ sOp.op = "set"
    /\ sOp.arg # NestedValue
    /\ \E k \in 1..Len(RunEvents) : RunEvents[k].value = NestedValue

C16_NestedSetDeliveredAfter ==
    NestedSetHappened =>
        /\ \A k \in 1..Len(RunEvents) : \A l \in 1..Len(RunEvents) :
              (RunEvents[k].value = NestedValue /\ RunEvents[l].value = sOp.arg)
                  => l < k
        /\ RunsWith(sOp.arg) = sOp.subsBefore
        /\ subscriber_queue = <<>>
        /\ sValue = NestedValue
        /\ \A i \in 1..Len(sSubscribers) :
              LET got == ReceivedBy(sSubscribers[i])
              IN  got = <<sOp.arg, NestedValue>>

\* the first of three subscribers set NestedValue while it was notified
C16_Witness ==
    /\ NestedSetHappened
    /\ Len(sSubscribers) = 3
    /\ sBehaviour[1] = "set"
    /\ Len(RunEvents) = 6

(***************************************************************************)
(* C17: once the unsubscribe function of a subscriber has returned, the    *)
(* run callback of that subscriber is not called again, also when the      *)
(* unsubscribe was called from another subscriber's callback during a      *)
(* notification.                                                           *)
(***************************************************************************)
C17_NoRunAfterUnsubscribe ==
    \A k \in 1..Len(sEvents) : \A l \in 1..Len(sEvents) :
        (/\ k < l
         /\ sEvents[k].ev = "delete"
         /\ IsRun(sEvents[l]))
        => sEvents[l].sub # sEvents[k].sub

(***************************************************************************)
(* C19: a second call of an unsubscribe function raises no error and       *)
(* changes neither the set of subscribers nor the start/stop state of the  *)
(* store, also when the first call removed the last subscriber.            *)
(***************************************************************************)
C19_SecondUnsubscribeNoOp ==
    (sOp.op = "unsubscribe" /\ sUnsubCalls[sOp.sub] >= 2) =>
        /\ ~sThrew
        /\ sSubscribers = sOp.subsBefore
        /\ \A k \in 1..Len(sEvents) : sEvents[k].ev \notin {"start", "stop"}

(***************************************************************************)
(* derived                                                                 *)
(*                                                                         *)
(* D = derived([A, B], fn) over two writable stores A and B.  Values are   *)
(* numbers, -1 is undefined.  The subscribers are "DA" and "DB", which     *)
(* derived's start notifier subscribes to A and B, "P", a subscriber of A, *)
(* and "Q", a subscriber of D.  A call is computed on a record W of all    *)
(* the fields; pending is kept as the set of the indices i whose bit       *)
(* 1 << i is set.                                                          *)
(***************************************************************************)
SourceValues == 0..2

\* fn of derived: a function of one parameter (auto), here of two numbers
DerivedFn(values) == 10 * values[1] + values[2]

\* safe_not_equal on numbers
NumbersNotEqual(a, b) == a # b

\* What the run callback of P does with a value other than NestedNumber:
\* nothing, A.set(NestedNumber), B.set(NestedNumber), or both, B first
PBehaviours == {"plain", "setA", "setB", "setBoth"}

NestedNumber == 2

\* The index i of the source a subscription of derived belongs to
SourceIndex(sub) == IF sub = "DA" THEN 1 ELSE 2

\* subscriber[1](): () => { pending |= (1 << i) } for derived's
\* subscriptions, noop for the others
Invalidate(W, sub) ==
    IF sub \in {"DA", "DB"}
    THEN [W EXCEPT !.pending = @ \cup {SourceIndex(sub)}]
    ELSE W

RECURSIVE InvalidateAll(_, _)
InvalidateAll(W, subs) ==
    IF Len(subs) = 0 THEN W
    ELSE InvalidateAll(Invalidate(W, subs[1]), Tail(subs))

\* if (pending) { return; }
Pending(pending) == pending # {}

RECURSIVE DSet(_, _, _)
RECURSIVE DDrain(_, _)
RECURSIVE DRun(_, _, _)
RECURSIVE Sync(_)

\* set(new_value) of store
DSet(W, store, new_value) ==
    IF ~NumbersNotEqual(W.value[store], new_value) THEN W
    ELSE LET W1 == [W EXCEPT !.value[store] = new_value]
         IN  IF W1.stop[store] # "function" THEN W1
             ELSE LET run_queue == Len(W1.queue) = 0
                      subs == W1.subscribers[store]
                      W2 == InvalidateAll(W1, subs)
                      W3 == [W2 EXCEPT !.queue = @ \o
                                [i \in 1..Len(subs) |->
                                    [sub |-> subs[i], value |-> new_value]]]
                  IN  IF ~run_queue THEN W3
                      ELSE [DDrain(W3, 1) EXCEPT !.queue = <<>>]

\* for (let i = 0; i < subscriber_queue.length; i += 2) ...
DDrain(W, i) ==
    IF i > Len(W.queue) THEN W
    ELSE DDrain(DRun(W, W.queue[i].sub, W.queue[i].value), i + 1)

\* The run callback of sub, called with value
DRun(W, sub, value) ==
    IF sub \in {"DA", "DB"}
    THEN LET W1 == [W EXCEPT !.values[SourceIndex(sub)] = value,
                             !.pending = @ \ {SourceIndex(sub)}]
         IN  IF W1.inited THEN Sync(W1) ELSE W1
    ELSE IF sub = "Q"
    THEN [W EXCEPT !.delivered = Append(@, value)]
    ELSE IF value = NestedNumber \/ W.behaviour = "plain" THEN W
    ELSE IF W.behaviour = "setA" THEN DSet(W, "A", NestedNumber)
    ELSE IF W.behaviour = "setB" THEN DSet(W, "B", NestedNumber)
    ELSE DSet(DSet(W, "B", NestedNumber), "A", NestedNumber)

\* sync: the evaluation is logged with the sources' values at that moment
Sync(W) ==
    IF Pending(W.pending) THEN W
    ELSE LET W1 == [W EXCEPT !.evals = Append(@,
                        [args |-> W.values,
                         sources |-> <<W.value["A"], W.value["B"]>>])]
         IN  DSet(W1, "D", DerivedFn(W.values))

\* subscribers.add(subscriber); if (subscribers.size === 1) stop = start(set)
\* || noop, for a store whose start is noop
AddSubscriber(W, store, sub) ==
    [W EXCEPT !.subscribers[store] = Append(@, sub),
              !.stop[store] = "function"]

\* A.subscribe(run) by P
SubscribeToSource(W) ==
    DRun(AddSubscriber(W, "A", "P"), "P", W.value["A"])

\* The start notifier of D: derived's callback passed to readable
DerivedStart(W) ==
    LET W0 == [W EXCEPT !.inited = FALSE, !.values = <<-1, -1>>, !.pending = {}]
        W1 == DRun(AddSubscriber(W0, "A", "DA"), "DA", W0.value["A"])
        W2 == DRun(AddSubscriber(W1, "B", "DB"), "DB", W1.value["B"])
    IN  Sync([W2 EXCEPT !.inited = TRUE])

\* D.subscribe(run) by Q, the first subscriber of D
SubscribeToDerived(W) ==
    LET W1 == [W EXCEPT !.subscribers["D"] = Append(@, "Q")]
        W2 == [DerivedStart(W1) EXCEPT !.stop["D"] = "function"]
    IN  DRun(W2, "Q", W2.value["D"])

\* The fields as one record, with empty logs
DerivedRecord ==
    [value |-> vValue, stop |-> vStop, subscribers |-> vSubscribers,
     queue |-> vQueue, values |-> vValues, pending |-> vPending,
     inited |-> vInited, behaviour |-> vBehaviour,
     evals |-> <<>>, delivered |-> <<>>]

DerivedCommit(W, op) ==
    /\ vValue' = W.value
    /\ vStop' = W.stop
    /\ vSubscribers' = W.subscribers
    /\ vQueue' = W.queue
    /\ vValues' = W.values
    /\ vPending' = W.pending
    /\ vInited' = W.inited
    /\ vBehaviour' = W.behaviour
    /\ vEvals' = W.evals
    /\ vDelivered' = W.delivered
    /\ vOp' = op
    /\ UNCHANGED <<pickVars, routerVars, storeVars, dashVars, predVars,
                   overVars, navVars, fmtVars>>

\* P subscribes to A
SubscribeP ==
    /\ vSubscribers["A"] = <<>> \/ vSubscribers["A"] = <<"DA">>
    /\ DerivedCommit(SubscribeToSource(DerivedRecord),
                     [op |-> "subscribe", store |-> "A", arg |-> -1])

\* Q subscribes to D
SubscribeQ ==
    /\ vSubscribers["D"] = <<>>
    /\ DerivedCommit(SubscribeToDerived(DerivedRecord),
                     [op |-> "subscribe", store |-> "D", arg |-> -1])

\* A.set(v) or B.set(v), called from outside any notification
SetSource ==
    \E store \in {"A", "B"} : \E v \in SourceValues :
        DerivedCommit(DSet(DerivedRecord, store, v),
                      [op |-> "set", store |-> store, arg |-> v])

DerivedInit ==
    /\ PickIdle /\ RouterIdle /\ StoreIdle
    /\ DashIdle /\ PredIdle /\ OverIdle /\ NavIdle /\ FmtIdle
    /\ \E a \in SourceValues : \E b \in SourceValues :
          vValue = [A |-> a, B |-> b, D |-> -1]
    /\ vStop = [A |-> "undefined", B |-> "undefined", D |-> "undefined"]
    /\ vSubscribers = [A |-> <<>>, B |-> <<>>, D |-> <<>>]
    /\ vQueue = <<>>
    /\ vValues = <<>>
    /\ vPending = {}
    /\ vInited = FALSE
    /\ vBehaviour \in PBehaviours
    /\ vOp = NoOp
    /\ vEvals = <<>>
    /\ vDelivered = <<>>

DerivedNext == SubscribeP \/ SubscribeQ \/ SetSource

SpecDerived == DerivedInit /\ [][DerivedNext]_vars

(***************************************************************************)
(* C18: once a call on a source has returned, the value of D and the last  *)
(* value delivered to D's subscriber equal fn of the current values of A   *)
(* and B; and fn is only ever evaluated on the current values of both      *)
(* sources, never on a value a source has already replaced.                *)
(***************************************************************************)
DerivedSubscribed == vSubscribers["D"] # <<>>

C18_DerivedSettles ==
    DerivedSubscribed =>
        /\ vQueue = <<>>
        /\ vPending = {}
        /\ vValue["D"] = DerivedFn(<<vValue["A"], vValue["B"]>>)
        /\ vDelivered # <<>> => vDelivered[Len(vDelivered)] = vValue["D"]

C18_DerivedConsistent ==
    /\ C18_DerivedSettles
    /\ \A k \in 1..Len(vEvals) : vEvals[k].args = vEvals[k].sources

====
